---- MODULE Spec2Model ----
(***************************************************************************)
(* SceneManager (src/core/scene_manager.py): a registry of scenes, the     *)
(* single current scene, and the timed fade between an outgoing and an     *)
(* incoming scene.                                                         *)
(*                                                                         *)
(* Units.  Time is counted in steps of 0.05 s, so the default fade of      *)
(* 0.35 s is 7, a fade of 1.0 s is 20 and a tick of 0.5 s is 10.  alpha is *)
(* the real number of the code multiplied by AlphaScale, which every       *)
(* duration of the model divides, so that 255 * dt / dur is exact.         *)
(* Scenes are the passive Scene base class (its callbacks return without   *)
(* raising and without calling back into the manager); the calls the       *)
(* manager makes on them are recorded, per manager call, in `calls`.       *)
(* SpecReentrant and SpecRaising drive the manager with scenes that call   *)
(* switch from inside enter() and with scenes whose callbacks raise.       *)
(*                                                                         *)
(* Beside the manager stand three smaller objects, each with a             *)
(* specification of its own: the DownloadItem of the YouTube scene with    *)
(* its worker thread (SpecDownload), the recent list of AppState           *)
(* (SpecRecent) and the scrolling ListContainer (SpecList).                *)
(***************************************************************************)
EXTENDS Integers, Sequences, FiniteSets

\* ---------------------------------------------------------------- inputs
None == "None"
Scenes == {"A", "B", "C"}
\* keyword arguments handed to switch: the empty dict and one non-empty one
Kwargs == {"kw0", "kwC"}
\* largest tick length, in quarters of a second
MaxDtSteps == 2
\* the accumulated fade time is not counted beyond 2 s
MaxAcc == 40
DtValues == {5 * k : k \in 0..MaxDtSteps}
\* arguments of set_fade: -1.0 s, 0 s, 0.5 s, 1.0 s
FadeInputs == {-20, 0, 10, 20}
DefaultDur == 7
AlphaScale == 7 * 20
AlphaMax == 255
\* def push_recent(self, name, limit=8)
DefaultLimit == 8
Full == AlphaMax * AlphaScale

VARIABLES
    current,      \* self.current
    registry,     \* self._registry
    phase,        \* self._phase
    alpha,        \* self._alpha, times AlphaScale
    dur,          \* self._dur, in steps of 0.05 s
    next_scene,   \* self._next_scene
    next_kwargs,  \* self._next_kwargs
    op,           \* the manager call made last, with its arguments
    calls,        \* the scene callbacks and the overlay blit that call made, in order
    overlay,      \* the alpha draw() composited in that call, -1 when none
    acc,          \* dt accumulated in the running half of the fade
    steady,       \* no set_fade changed dur since the fade switch
    first_req,    \* the scene the running fade was first asked for
    last_req,     \* the scene and arguments of the latest switch call
    cancelled,    \* the pending target remove() took out of the registry
    seen,         \* what each callback of a flip finds in the manager
    wanted,       \* the scene a scene asked for from inside its enter()
    failed,       \* the scene and callback that raised in the latest flip
    \* DownloadItem (src/scenes/ytdownload_scene.py)
    stop_flag,    \* self.stop_flag
    status,       \* self.status
    downloading,  \* self.downloading
    progress,     \* self.progress, in hundredths
    loop_i,       \* i of the worker's for loop
    pc_ui,        \* where the UI thread is in _stop_download
    pc_worker,    \* where the worker thread is in _worker
    \* AppState (src/core/app_state.py)
    recent,       \* self.recent
    limit,        \* the limit every push_recent call is made with
    last_name,    \* the name of the latest push_recent call
    pushed,       \* the latest non-empty name pushed
    \* ListContainer (src/ui/listcontainer.py)
    widgets,        \* self.widgets, each widget by its height
    content_h,      \* self._content_h
    layout_dirty,   \* self._layout_dirty
    scroll_y,       \* self._scroll_y, times ScrollScale
    scroll_enabled, \* self._scroll_enabled
    dragging,       \* self._dragging
    drag_start_y,   \* self._drag_start_y
    scroll_start,   \* self._scroll_start, times ScrollScale
    list_op         \* the ListContainer call made last, and what it found

\* the scene manager with its recording
manager == <<current, registry, phase, alpha, dur, next_scene, next_kwargs,
             op, calls, overlay, acc, steady, first_req, last_req, cancelled,
             seen>>

scenes == <<wanted, failed>>

item == <<stop_flag, status, downloading, progress, loop_i, pc_ui, pc_worker>>

state == <<recent, limit, last_name, pushed>>

list == <<widgets, content_h, layout_dirty, scroll_y, scroll_enabled, dragging,
          drag_start_y, scroll_start, list_op>>

vars == <<manager, scenes, item, state, list>>

\* what the calls of a manager with passive scenes leave alone
rest == <<scenes, item, state, list>>

hist == <<acc, steady, first_req, last_req, cancelled>>

mgr == <<current, registry, phase, alpha, dur, next_scene, next_kwargs>>

\* ------------------------------------------------------------- recording
\* ph is the phase the call found, had whether its scene was registered
Op(name, scene, fade, kw, dt) ==
    [name |-> name, scene |-> scene, fade |-> fade, kw |-> kw, dt |-> dt,
     ph |-> phase, had |-> scene \in registry]

Call(m, s, kw, dt) == [m |-> m, s |-> s, kw |-> kw, dt |-> dt]
CallEnter(s, kw) == Call("enter", s, kw, 0)
CallExit(s) == Call("exit", s, "-", 0)
CallUpdate(s, dt) == Call("update", s, "-", dt)
CallEvents(s) == Call("handle_events", s, "-", 0)
CallDraw(s) == Call("draw", s, "-", 0)
\* screen.blit(overlay, (0, 0)) with the overlay filled at alpha a
CallBlit(a) == Call("blit", None, "-", a)

\* `if self.current:` -- a Scene defines neither __bool__ nor __len__
Truthy(s) == s # None

Count(m, s) == Cardinality({i \in DOMAIN calls : calls[i].m = m /\ calls[i].s = s})
CountM(m) == Cardinality({i \in DOMAIN calls : calls[i].m = m})

\* ------------------------------------------------------------ operations
InitManager ==
    /\ current = None
    /\ registry = {}
    /\ phase = "idle"
    /\ alpha = 0
    /\ dur = DefaultDur
    /\ next_scene = None
    /\ next_kwargs = "kw0"
    /\ op = Op("init", None, FALSE, "-", 0)
    /\ calls = <<>>
    /\ overlay = -1
    /\ acc = 0
    /\ steady = TRUE
    /\ first_req = None
    /\ last_req = <<None, "kw0">>
    /\ cancelled = None
    /\ seen = <<>>

NoReq == <<None, "kw0">>

\* no scene has called back into the manager, none has raised
NoFail == <<None, "-">>

InitScenes ==
    /\ wanted = None
    /\ failed = NoFail

\* DownloadItem.__init__
InitItem ==
    /\ stop_flag = FALSE
    /\ status = "Idle"
    /\ downloading = FALSE
    /\ progress = 0
    /\ loop_i = 0
    /\ pc_ui = "idle"
    /\ pc_worker = "off"

\* AppState.__init__, and the limit its caller uses
InitState(lim) ==
    /\ recent = <<>>
    /\ limit = lim
    /\ last_name = None
    /\ pushed = None

\* ListContainer.__init__(..., scroll=enabled)
InitList(enabled) ==
    /\ widgets = <<>>
    /\ content_h = 0
    /\ layout_dirty = TRUE
    /\ scroll_y = 0
    /\ scroll_enabled = enabled
    /\ dragging = FALSE
    /\ drag_start_y = 0
    /\ scroll_start = 0
    /\ list_op = [name |-> "init", back |-> FALSE]

\* every object as constructed: the objects stand side by side, and each
\* specification below drives one of them
InitWith(lim, enabled) ==
    InitManager /\ InitScenes /\ InitItem /\ InitState(lim) /\ InitList(enabled)

Init == InitWith(DefaultLimit, TRUE)

\* an add that activates the scene when nothing is current
AddEntersFirst(scene) ==
    /\ registry' = registry \cup {scene}
    /\ op' = Op("add", scene, FALSE, "-", 0)
    /\ IF current = None
         THEN current' = scene /\ calls' = <<CallEnter(scene, "kw0")>>
         ELSE UNCHANGED current /\ calls' = <<>>
    /\ overlay' = -1
    /\ seen' = <<>>
    /\ UNCHANGED <<phase, alpha, dur, next_scene, next_kwargs, hist>>

add(scene) ==
    /\ registry' = registry \cup {scene}
    /\ op' = Op("add", scene, FALSE, "-", 0)
    /\ calls' = <<>>
    /\ overlay' = -1
    /\ seen' = <<>>
    /\ UNCHANGED <<current, phase, alpha, dur, next_scene, next_kwargs, hist>>

\* a remove that forgets the fade: current is cleared, phase and alpha stay
RemoveCurrentKeepsFade(scene) ==
    /\ calls' = <<CallExit(scene)>>
    /\ current' = None
    /\ UNCHANGED <<phase, alpha>>

\* try: scene.exit()  finally: current = None; phase = "idle"; alpha = 0.0
RemoveCurrent(scene) ==
    /\ calls' = <<CallExit(scene)>>
    /\ current' = None
    /\ phase' = "idle"
    /\ alpha' = 0

\* a remove that treats the pending target like the current scene
IsCurrentOrPending(scene) == scene = current \/ scene = next_scene

\* if scene is self.current
IsCurrent(scene) == scene = current

\* a discard skipped when the scene was current
DiscardUnlessCurrent(scene) ==
    IF scene = current THEN registry ELSE registry \ {scene}

\* self._registry.discard(scene)
Discard(scene) == registry \ {scene}

remove(scene) ==
    /\ IF IsCurrent(scene)
         THEN /\ RemoveCurrent(scene)
              /\ acc' = 0
              /\ steady' = TRUE
              /\ first_req' = None
              /\ last_req' = NoReq
              /\ cancelled' = None
         ELSE /\ calls' = <<>>
              /\ cancelled' = IF phase = "fading_out" /\ scene = next_scene
                                THEN scene ELSE cancelled
              /\ UNCHANGED <<current, phase, alpha, acc, steady, first_req, last_req>>
    /\ registry' = Discard(scene)
    /\ op' = Op("remove", scene, FALSE, "-", 0)
    /\ overlay' = -1
    /\ seen' = <<>>
    /\ UNCHANGED <<dur, next_scene, next_kwargs>>

has(scene) == scene \in registry

\* no clamp: the second argument as it is
Unclamped(a, b) == b

Max(a, b) == IF a >= b THEN a ELSE b
Min(a, b) == IF a <= b THEN a ELSE b

set_fade(duration) ==
    /\ dur' = Max(0, duration)
    /\ steady' = (steady /\ (phase = "idle" \/ dur' = dur))
    /\ op' = Op("set_fade", None, FALSE, "-", duration)
    /\ calls' = <<>>
    /\ overlay' = -1
    /\ seen' = <<>>
    /\ UNCHANGED <<current, registry, phase, alpha, next_scene, next_kwargs,
                   acc, first_req, last_req, cancelled>>

\* a query that reports the fade-out only
IsFadingOut == phase = "fading_out"

is_transitioning == phase # "idle"

\* a fast path taken only outside a transition
FastPathIdleOnly(with_fade) ==
    (~with_fade /\ phase = "idle") \/ current = None \/ dur <= 0

\* a fast path that forgets the first activation
FastPathNoFirst(with_fade) == (~with_fade) \/ dur <= 0

\* if (not with_fade) or (self.current is None) or self._dur <= 0.0
FastPath(with_fade) == (~with_fade) \/ current = None \/ dur <= 0

\* an immediate switch that enters the new scene without exiting the old one
SwitchNowNoExit(scene, kwargs) ==
    /\ calls' = <<CallEnter(scene, kwargs)>>
    /\ current' = scene
    /\ phase' = "idle"
    /\ alpha' = 0
    /\ UNCHANGED <<next_scene, next_kwargs>>

SwitchNow(scene, kwargs) ==
    /\ calls' = (IF Truthy(current) THEN <<CallExit(current)>> ELSE <<>>)
                \o <<CallEnter(scene, kwargs)>>
    /\ current' = scene
    /\ phase' = "idle"
    /\ alpha' = 0
    /\ UNCHANGED <<next_scene, next_kwargs>>

\* a fade path that keeps the target of the fade already running
SwitchFadeKeepsFirst(scene, kwargs) ==
    /\ IF phase = "fading_out"
         THEN UNCHANGED <<next_scene, next_kwargs>>
         ELSE next_scene' = scene /\ next_kwargs' = kwargs
    /\ phase' = "fading_out"
    /\ alpha' = 0
    /\ calls' = <<>>
    /\ UNCHANGED current

\* a fade path that lets a fade already running go on from where it is
SwitchFadeKeepsAlpha(scene, kwargs) ==
    /\ next_scene' = scene
    /\ next_kwargs' = kwargs
    /\ phase' = "fading_out"
    /\ alpha' = alpha
    /\ calls' = <<>>
    /\ UNCHANGED current

\* a fade path that treats a switch to the scene already current as a cancel
SwitchFadeSameCancels(scene, kwargs) ==
    /\ next_scene' = scene
    /\ next_kwargs' = kwargs
    /\ phase' = IF scene = current THEN "idle" ELSE "fading_out"
    /\ alpha' = 0
    /\ calls' = <<>>
    /\ UNCHANGED current

\* a fade path that exits the outgoing scene at once
SwitchFadeExitsNow(scene, kwargs) ==
    /\ next_scene' = scene
    /\ next_kwargs' = kwargs
    /\ phase' = "fading_out"
    /\ alpha' = 0
    /\ calls' = <<CallExit(current)>>
    /\ UNCHANGED current

SwitchFade(scene, kwargs) ==
    /\ next_scene' = scene
    /\ next_kwargs' = kwargs
    /\ phase' = "fading_out"
    /\ alpha' = 0
    /\ calls' = <<>>
    /\ UNCHANGED current

\* a switch that leaves the registry alone
NoAutoAdd(scene) == registry

\* if scene not in self._registry: self.add(scene)
AutoAdd(scene) == IF scene \notin registry THEN registry \cup {scene} ELSE registry

switch(scene, with_fade, kwargs) ==
    /\ registry' = AutoAdd(scene)
    /\ IF FastPath(with_fade)
         THEN /\ SwitchNow(scene, kwargs)
              /\ first_req' = None
              /\ last_req' = NoReq
         ELSE /\ SwitchFade(scene, kwargs)
              /\ first_req' = IF phase = "fading_out" THEN first_req ELSE scene
              /\ last_req' = <<scene, kwargs>>
    /\ acc' = 0
    /\ steady' = TRUE
    /\ cancelled' = None
    /\ op' = Op("switch", scene, with_fade, kwargs, 0)
    /\ overlay' = -1
    /\ seen' = <<>>
    /\ UNCHANGED dur

\* input blocked while the old scene fades out only
EventsBlockedFadeOut == phase = "fading_out"

\* if self._phase != "idle": return
EventsBlocked == phase # "idle"

handle_events ==
    /\ calls' = IF EventsBlocked THEN <<>>
                ELSE IF Truthy(current) THEN <<CallEvents(current)>> ELSE <<>>
    /\ op' = Op("handle_events", None, FALSE, "-", 0)
    /\ overlay' = -1
    /\ seen' = <<>>
    /\ UNCHANGED <<mgr, hist>>

\* a step computed with floor division, dt // dur
StepFloor(dt) ==
    IF dur > 0 THEN AlphaMax * AlphaScale * (dt \div dur) ELSE Full * dt

\* a step that takes the duration for the whole switch, half of it per fade
StepHalf(dt) ==
    IF dur > 0 THEN (2 * AlphaMax * AlphaScale * dt) \div dur ELSE Full * dt

\* step = 255.0 * (dt / max(self._dur, 1e-6)), times AlphaScale.  With dur = 0
\* the divisor is 1e-6 s: every positive dt of the model is then worth far more
\* than a whole fade, and alpha is clamped in the same call.
Step(dt) == IF dur > 0 THEN (AlphaMax * AlphaScale * dt) \div dur ELSE Full * dt

\* an update withheld only while the old scene fades out
ForwardsUnlessFadingOut(cur, ph) == Truthy(cur) /\ ph # "fading_out"

\* an update forwarded to the current scene in every phase of a fade
ForwardsAlways(cur, ph) == Truthy(cur)

\* if self.current and self._phase == "fading_in": self.current.update(dt)
Forwards(cur, ph) == Truthy(cur) /\ ph = "fading_in"

\* what a callback finds in the manager when it is called
Seen(m, a, cur, ph) == [m |-> m, alpha |-> a, current |-> cur, phase |-> ph]

\* a flip that sets the phase before it enters the incoming scene
FlipSeenPhaseFirst(cur, nxt) ==
    (IF Truthy(cur) THEN <<Seen("exit", Full, cur, "fading_out")>> ELSE <<>>)
    \o (IF Truthy(nxt) THEN <<Seen("enter", Full, nxt, "fading_in")>> ELSE <<>>)

\* self._alpha = 255.0; current.exit(); self.current = self._next_scene;
\* current.enter(**self._next_kwargs); self._phase = "fading_in"
FlipSeen(cur, nxt) ==
    (IF Truthy(cur) THEN <<Seen("exit", Full, cur, "fading_out")>> ELSE <<>>)
    \o (IF Truthy(nxt) THEN <<Seen("enter", Full, nxt, "fading_out")>> ELSE <<>>)

update(dt) ==
    /\ op' = Op("update", None, FALSE, "-", dt)
    /\ overlay' = -1
    /\ seen' = IF phase = "fading_out" /\ alpha + Step(dt) >= Full
                THEN FlipSeen(current, next_scene) ELSE <<>>
    /\ UNCHANGED <<registry, dur, next_scene, next_kwargs>>
    /\ IF phase = "idle"
         THEN /\ calls' = IF Truthy(current) THEN <<CallUpdate(current, dt)>> ELSE <<>>
              /\ UNCHANGED <<current, phase, alpha, hist>>
         ELSE IF phase = "fading_out"
           THEN IF alpha + Step(dt) >= Full
                  THEN /\ alpha' = Full
                       /\ current' = next_scene
                       /\ phase' = "fading_in"
                       /\ calls' = (IF Truthy(current) THEN <<CallExit(current)>> ELSE <<>>)
                                   \o (IF Truthy(next_scene)
                                         THEN <<CallEnter(next_scene, next_kwargs)>>
                                         ELSE <<>>)
                                   \o (IF Forwards(next_scene, "fading_in")
                                         THEN <<CallUpdate(next_scene, dt)>>
                                         ELSE <<>>)
                       /\ acc' = 0
                       /\ cancelled' = None
                       /\ UNCHANGED <<steady, first_req, last_req>>
                  ELSE /\ alpha' = alpha + Step(dt)
                       /\ calls' = IF Forwards(current, "fading_out")
                                     THEN <<CallUpdate(current, dt)>> ELSE <<>>
                       /\ acc' = Min(acc + dt, MaxAcc)
                       /\ UNCHANGED <<current, phase, steady, first_req, last_req,
                                      cancelled>>
           ELSE IF alpha - Step(dt) <= 0
                  THEN /\ alpha' = 0
                       /\ phase' = "idle"
                       /\ calls' = IF Forwards(current, "idle")
                                     THEN <<CallUpdate(current, dt)>> ELSE <<>>
                       /\ acc' = 0
                       /\ steady' = TRUE
                       /\ first_req' = None
                       /\ last_req' = NoReq
                       /\ UNCHANGED <<current, cancelled>>
                  ELSE /\ alpha' = alpha - Step(dt)
                       /\ calls' = IF Forwards(current, "fading_in")
                                     THEN <<CallUpdate(current, dt)>> ELSE <<>>
                       /\ acc' = Min(acc + dt, MaxAcc)
                       /\ UNCHANGED <<current, phase, steady, first_req, last_req,
                                      cancelled>>

\* an overlay that is skipped while it is fully transparent
OverlayShownIfVisible == phase # "idle" /\ alpha >= AlphaScale

OverlayShown == phase # "idle"

OverlayAlpha == Max(0, Min(AlphaMax, alpha \div AlphaScale))

draw ==
    /\ calls' = (IF Truthy(current) THEN <<CallDraw(current)>> ELSE <<>>)
                 \o (IF OverlayShown THEN <<CallBlit(OverlayAlpha)>> ELSE <<>>)
    /\ overlay' = IF OverlayShown THEN OverlayAlpha ELSE -1
    /\ op' = Op("draw", None, FALSE, "-", 0)
    /\ seen' = <<>>
    /\ UNCHANGED <<mgr, hist>>

Next ==
    \/ \E s \in Scenes : add(s) /\ UNCHANGED rest
    \/ \E s \in Scenes : remove(s) /\ UNCHANGED rest
    \/ \E d \in FadeInputs : set_fade(d) /\ UNCHANGED rest
    \/ \E s \in Scenes, f \in BOOLEAN, kw \in Kwargs :
          switch(s, f, kw) /\ UNCHANGED rest
    \/ handle_events /\ UNCHANGED rest
    \/ \E dt \in DtValues : update(dt) /\ UNCHANGED rest
    \/ draw /\ UNCHANGED rest

\* the scene manager driven by a host whose scenes are passive; the other
\* objects stay as constructed
Spec == Init /\ [][Next]_vars

\* The frame loop of main(): every frame calls update with the time the frame
\* took, which clock.tick(60) keeps positive.  Here the host makes no switch
\* and no remove while a fade is running.
Tick == \E dt \in DtValues \ {0} : update(dt) /\ UNCHANGED rest

NextUndisturbed ==
    \/ \E s \in Scenes : add(s) /\ UNCHANGED rest
    \/ \E s \in Scenes : phase = "idle" /\ remove(s) /\ UNCHANGED rest
    \/ \E d \in FadeInputs : set_fade(d) /\ UNCHANGED rest
    \/ \E s \in Scenes, f \in BOOLEAN, kw \in Kwargs :
          phase = "idle" /\ switch(s, f, kw) /\ UNCHANGED rest
    \/ handle_events /\ UNCHANGED rest
    \/ \E dt \in DtValues : update(dt) /\ UNCHANGED rest
    \/ draw /\ UNCHANGED rest

SpecUndisturbed == Init /\ [][NextUndisturbed]_vars /\ WF_vars(Tick)

\* ------------------------------------------------- scenes that call back
\* update(dt) on the tick of the flip, when the incoming scene's enter() calls
\* manager.switch(target, with_fade=True, **kwargs) before it returns.  The
\* switch runs inside line 113, between `self.current = self._next_scene` and
\* `self._phase = "fading_in"`: it finds the incoming scene current and the
\* phase still fading_out.  Its fade path sets the pending target, phase and
\* alpha, and line 115 then overwrites the phase; its immediate path (dur 0)
\* exits the incoming scene and enters the target, and line 115 overwrites
\* the phase again.
Flips(dt) == phase = "fading_out" /\ alpha + Step(dt) >= Full

update_reentrant(dt, target, kwargs) ==
    /\ Flips(dt)
    /\ Truthy(next_scene)
    /\ op' = Op("update", None, FALSE, "-", dt)
    /\ overlay' = -1
    /\ seen' = FlipSeen(current, next_scene)
    /\ registry' = registry \cup {target}
    /\ phase' = "fading_in"
    /\ alpha' = 0
    /\ IF dur <= 0
         THEN /\ current' = target
              /\ calls' = (IF Truthy(current) THEN <<CallExit(current)>> ELSE <<>>)
                          \o <<CallEnter(next_scene, next_kwargs),
                               CallExit(next_scene),
                               CallEnter(target, kwargs),
                               CallUpdate(target, dt)>>
              /\ first_req' = None
              /\ last_req' = NoReq
              /\ wanted' = None
              /\ UNCHANGED <<next_scene, next_kwargs>>
         ELSE /\ current' = next_scene
              /\ next_scene' = target
              /\ next_kwargs' = kwargs
              /\ calls' = (IF Truthy(current) THEN <<CallExit(current)>> ELSE <<>>)
                          \o <<CallEnter(next_scene, next_kwargs),
                               CallUpdate(next_scene, dt)>>
              /\ first_req' = target
              /\ last_req' = <<target, kwargs>>
              /\ wanted' = target
    /\ acc' = 0
    /\ steady' = TRUE
    /\ cancelled' = None
    /\ UNCHANGED <<dur, failed>>

\* a request of a scene stands until the scene asked for is current or the
\* host asks for something else
Granted == IF current' = wanted THEN None ELSE wanted

TickReentrant ==
    \E dt \in DtValues \ {0} :
        update(dt) /\ wanted' = Granted /\ UNCHANGED <<failed, item, state, list>>

NextReentrant ==
    \/ \E d \in FadeInputs : set_fade(d) /\ UNCHANGED rest
    \/ \E s \in Scenes, f \in BOOLEAN, kw \in Kwargs :
          switch(s, f, kw) /\ wanted' = None /\ UNCHANGED <<failed, item, state, list>>
    \/ \E dt \in DtValues :
          update(dt) /\ wanted' = Granted /\ UNCHANGED <<failed, item, state, list>>
    \/ \E dt \in DtValues, s \in Scenes, kw \in Kwargs :
          update_reentrant(dt, s, kw) /\ UNCHANGED <<item, state, list>>

\* the frame loop keeps calling update with dt > 0
SpecReentrant == Init /\ [][NextReentrant]_vars /\ WF_vars(TickReentrant)

\* ------------------------------------------------------ scenes that raise
\* the exception of a callback of scene s leaves the manager call
Raised(s) == Call("raised", s, "-", 0)

\* update(dt) on the tick of the flip, when the callback m of the flip raises:
\* exit() of the outgoing scene at line 109, before current is set, or enter()
\* of the incoming scene at line 113, after it.  alpha is 255 by line 107; the
\* exception leaves update before line 115, so the phase stays fading_out, and
\* before line 125, so no scene is updated.
update_raise(dt, m) ==
    /\ Flips(dt)
    /\ op' = Op("update", None, FALSE, "-", dt)
    /\ overlay' = -1
    /\ alpha' = Full
    /\ IF m = "exit"
         THEN /\ Truthy(current)
              /\ calls' = <<CallExit(current), Raised(current)>>
              /\ seen' = <<Seen("exit", Full, current, "fading_out")>>
              /\ failed' = <<current, "exit">>
              /\ UNCHANGED current
         ELSE /\ Truthy(next_scene)
              /\ calls' = (IF Truthy(current) THEN <<CallExit(current)>> ELSE <<>>)
                          \o <<CallEnter(next_scene, next_kwargs), Raised(next_scene)>>
              /\ seen' = FlipSeen(current, next_scene)
              /\ failed' = <<next_scene, "enter">>
              /\ current' = next_scene
    /\ UNCHANGED <<registry, phase, dur, next_scene, next_kwargs, hist, wanted>>

\* a remove whose reset is not in a finally clause
ExitRaisesNoFinally(scene) ==
    /\ calls' = <<CallExit(scene), Raised(scene)>>
    /\ UNCHANGED <<current, phase, alpha>>

\* try: scene.exit() -- raises --  finally: current = None; phase = "idle";
\* alpha = 0.0
ExitRaises(scene) ==
    /\ calls' = <<CallExit(scene), Raised(scene)>>
    /\ current' = None
    /\ phase' = "idle"
    /\ alpha' = 0

\* remove(scene) of the current scene when its exit() raises: the finally
\* clause runs, the discard of line 48 does not
remove_raise(scene) ==
    /\ IsCurrent(scene)
    /\ ExitRaises(scene)
    /\ op' = Op("remove", scene, FALSE, "-", 0)
    /\ overlay' = -1
    /\ seen' = <<>>
    /\ acc' = 0
    /\ steady' = TRUE
    /\ first_req' = None
    /\ last_req' = NoReq
    /\ cancelled' = None
    /\ failed' = NoFail
    /\ UNCHANGED <<registry, dur, next_scene, next_kwargs, wanted>>

\* a failure is remembered until the host asks for something else or a flip
\* goes through
Settled(dt) == IF Flips(dt) THEN NoFail ELSE failed

NextRaising ==
    \/ \E s \in Scenes :
          remove(s) /\ failed' = NoFail /\ UNCHANGED <<wanted, item, state, list>>
    \/ \E s \in Scenes, f \in BOOLEAN, kw \in Kwargs :
          switch(s, f, kw) /\ failed' = NoFail /\ UNCHANGED <<wanted, item, state, list>>
    \/ \E dt \in DtValues :
          update(dt) /\ failed' = Settled(dt) /\ UNCHANGED <<wanted, item, state, list>>
    \/ \E dt \in DtValues, m \in {"exit", "enter"} :
          update_raise(dt, m) /\ UNCHANGED <<item, state, list>>
    \/ \E s \in Scenes : remove_raise(s) /\ UNCHANGED <<item, state, list>>

\* the host switches, removes and updates at the default fade duration
SpecRaising == Init /\ [][NextRaising]_vars

\* ------------------------------------------------------------ DownloadItem
\* The mock download (no yt_dlp): the UI thread runs _start_download and
\* _stop_download, the worker thread runs _worker.  The threads share the
\* fields of the item without a lock, so every read and every write of a
\* field is a step of its own and the steps of the two threads interleave.
\* status "Downloading..." stands for the texts "Downloading... N%", whose
\* N is progress.
LoopCount == 100

\* _start_download, with a URL entered; it returns at once while downloading
start_download ==
    /\ pc_ui = "idle"
    /\ ~downloading
    /\ stop_flag' = FALSE
    /\ progress' = 0
    /\ status' = "Starting..."
    /\ downloading' = TRUE
    /\ loop_i' = 0
    /\ pc_worker' = "for"
    /\ UNCHANGED pc_ui

\* _stop_download: if not self.downloading: return
stop_download ==
    /\ pc_ui = "idle"
    /\ downloading
    /\ pc_ui' = "stop_flag"
    /\ UNCHANGED <<stop_flag, status, downloading, progress, loop_i, pc_worker>>

\* self.stop_flag = True
stop_sets_flag ==
    /\ pc_ui = "stop_flag"
    /\ stop_flag' = TRUE
    /\ pc_ui' = "status"
    /\ UNCHANGED <<status, downloading, progress, loop_i, pc_worker>>

\* self.status = "Stopping..."
stop_sets_status ==
    /\ pc_ui = "status"
    /\ status' = "Stopping..."
    /\ pc_ui' = "idle"
    /\ UNCHANGED <<stop_flag, downloading, progress, loop_i, pc_worker>>

\* for i in range(100): if self.stop_flag: ... ; else: ...
worker_for ==
    /\ pc_worker = "for"
    /\ pc_worker' = IF loop_i >= LoopCount THEN "done"
                     ELSE IF stop_flag THEN "stopped" ELSE "progress"
    /\ UNCHANGED <<stop_flag, status, downloading, progress, loop_i, pc_ui>>

\* self.status = "Stopped"; break
worker_stopped ==
    /\ pc_worker = "stopped"
    /\ status' = "Stopped"
    /\ pc_worker' = "end"
    /\ UNCHANGED <<stop_flag, downloading, progress, loop_i, pc_ui>>

\* self.progress = (i + 1) / 100.0
worker_progress ==
    /\ pc_worker = "progress"
    /\ progress' = loop_i + 1
    /\ pc_worker' = "status"
    /\ UNCHANGED <<stop_flag, status, downloading, loop_i, pc_ui>>

\* self.status = f"Downloading... {int(self.progress * 100)}%"; time.sleep(0.05)
worker_status ==
    /\ pc_worker = "status"
    /\ status' = "Downloading..."
    /\ loop_i' = loop_i + 1
    /\ pc_worker' = "for"
    /\ UNCHANGED <<stop_flag, downloading, progress, pc_ui>>

\* the else of the for loop: self.status = "Done"
worker_done ==
    /\ pc_worker = "done"
    /\ status' = "Done"
    /\ pc_worker' = "end"
    /\ UNCHANGED <<stop_flag, downloading, progress, loop_i, pc_ui>>

\* self.downloading = False, and the thread ends
worker_end ==
    /\ pc_worker = "end"
    /\ downloading' = FALSE
    /\ pc_worker' = "off"
    /\ UNCHANGED <<stop_flag, status, progress, loop_i, pc_ui>>

NextDownload ==
    \/ start_download /\ UNCHANGED <<manager, scenes, state, list>>
    \/ stop_download /\ UNCHANGED <<manager, scenes, state, list>>
    \/ stop_sets_flag /\ UNCHANGED <<manager, scenes, state, list>>
    \/ stop_sets_status /\ UNCHANGED <<manager, scenes, state, list>>
    \/ worker_for /\ UNCHANGED <<manager, scenes, state, list>>
    \/ worker_stopped /\ UNCHANGED <<manager, scenes, state, list>>
    \/ worker_progress /\ UNCHANGED <<manager, scenes, state, list>>
    \/ worker_status /\ UNCHANGED <<manager, scenes, state, list>>
    \/ worker_done /\ UNCHANGED <<manager, scenes, state, list>>
    \/ worker_end /\ UNCHANGED <<manager, scenes, state, list>>

SpecDownload == Init /\ [][NextDownload]_vars

\* ---------------------------------------------------------------- AppState
\* the titles handed to push_recent, and the empty title
Names == {"", "n1", "n2", "n3", "n4", "n5"}
\* the largest limit tried; MainScene._select_feature uses the default
MaxLimit == 3
Limits == 1..MaxLimit

\* list.remove(name): the first element equal to name is taken out
RECURSIVE RemoveFirst(_, _)
RemoveFirst(seq, name) ==
    IF seq = <<>> THEN <<>>
    ELSE IF Head(seq) = name THEN Tail(seq)
    ELSE <<Head(seq)>> \o RemoveFirst(Tail(seq), name)

Contains(seq, name) == \E i \in DOMAIN seq : seq[i] = name

\* self.recent[:limit], for limit >= 0
Truncate(seq, lim) == IF Len(seq) > lim THEN SubSeq(seq, 1, lim) ELSE seq

\* a push that inserts without taking the old entry out
PushRecentNoRemove(rec, name, lim) ==
    IF name = "" THEN rec ELSE Truncate(<<name>> \o rec, lim)

PushRecent(rec, name, lim) ==
    IF name = "" THEN rec
    ELSE Truncate(<<name>> \o (IF Contains(rec, name) THEN RemoveFirst(rec, name)
                                                      ELSE rec),
                  lim)

push_recent(name) ==
    /\ recent' = PushRecent(recent, name, limit)
    /\ last_name' = name
    /\ pushed' = IF name = "" THEN pushed ELSE name
    /\ UNCHANGED limit

NextRecent ==
    \E name \in Names : push_recent(name) /\ UNCHANGED <<manager, scenes, item, list>>

InitRecent == \E lim \in Limits : InitWith(lim, TRUE)

SpecRecent == InitRecent /\ [][NextRecent]_vars

\* ----------------------------------------------------------- ListContainer
\* A container 54 px high with the default padding (12, 12) and gap 8, so the
\* view is 30 px high.  Its widgets are of the two kinds below: one without a
\* rect, laid out at the default height 40, and one with a rect 16 px high.
\* Every content height is then a multiple of 24 and the scrollbar thumb is
\* the least one, 24 px, on a track of 6 px; _scroll_y, a float after a drag,
\* is counted exactly in units of 1/ScrollScale px.
RectHeight == 54
PaddingY == 12
Gap == 8
DefaultHeight == 40
WheelStep == 40
MinThumb == 24
WidgetHeights == {DefaultHeight, 16}
MaxWidgets == 2
\* pygame.mouse.get_pos()[1] at the events
MouseYs == {0, 2}
ScrollScale == 6

ViewH == RectHeight - PaddingY * 2

RECURSIVE ContentH(_)
ContentH(ws) == IF ws = <<>> THEN 0 ELSE Head(ws) + Gap + ContentH(Tail(ws))

\* a clamp with no upper end
ClampScrollFromBelow(sy, ch) ==
    IF ~scroll_enabled THEN 0 ELSE Max(0, sy)

ClampScroll(sy, ch) ==
    IF ~scroll_enabled THEN 0
    ELSE Max(0, Min(sy, Max(0, ch - ViewH) * ScrollScale))

\* the call, and whether it moved the scroll offset back
ListOp(name) == [name |-> name, back |-> scroll_y' < scroll_y]

\* _relayout of the widgets ws
Relayout(ws) ==
    /\ widgets' = ws
    /\ content_h' = Max(0, ContentH(ws))
    /\ layout_dirty' = FALSE
    /\ scroll_y' = ClampScroll(scroll_y, Max(0, ContentH(ws)))

list_add(widget) ==
    /\ Len(widgets) < MaxWidgets
    /\ Relayout(Append(widgets, widget))
    /\ list_op' = ListOp("add")
    /\ UNCHANGED <<scroll_enabled, dragging, drag_start_y, scroll_start>>

list_add_many(ws) ==
    /\ Len(widgets) + Len(ws) <= MaxWidgets
    /\ Relayout(widgets \o ws)
    /\ list_op' = ListOp("add_many")
    /\ UNCHANGED <<scroll_enabled, dragging, drag_start_y, scroll_start>>

list_remove(widget) ==
    /\ IF Contains(widgets, widget)
         THEN Relayout(RemoveFirst(widgets, widget))
         ELSE UNCHANGED <<widgets, content_h, layout_dirty, scroll_y>>
    /\ list_op' = ListOp("remove")
    /\ UNCHANGED <<scroll_enabled, dragging, drag_start_y, scroll_start>>

list_clear ==
    /\ Relayout(<<>>)
    /\ list_op' = ListOp("clear")
    /\ UNCHANGED <<scroll_enabled, dragging, drag_start_y, scroll_start>>

layout_now ==
    /\ Relayout(widgets)
    /\ list_op' = ListOp("layout_now")
    /\ UNCHANGED <<scroll_enabled, dragging, drag_start_y, scroll_start>>

\* the events update handles, one per call: none, a wheel notch up or down,
\* the left button pressed (on the scrollbar thumb or elsewhere) or released,
\* and a mouse motion
Events ==
    {[type |-> "NONE", y |-> 0, hit |-> FALSE]}
    \cup {[type |-> "MOUSEWHEEL", y |-> y, hit |-> FALSE] : y \in {-1, 1}}
    \cup {[type |-> "MOUSEBUTTONDOWN", y |-> y, hit |-> h] :
             y \in MouseYs, h \in BOOLEAN}
    \cup {[type |-> "MOUSEBUTTONUP", y |-> 0, hit |-> FALSE]}
    \cup {[type |-> "MOUSEMOTION", y |-> y, hit |-> FALSE] : y \in MouseYs}

\* thumb_h and track_h of the scrollbar for the content height ch > ViewH
ThumbH(ch) == Max(MinThumb, (ViewH * ViewH) \div ch)
TrackH(ch) == ViewH - ThumbH(ch)

\* self._scroll_start + dy * (max_scroll / max(1, track_h))
Dragged(dy, ch) ==
    scroll_start
    + dy * Max(1, ch - ViewH) * (ScrollScale \div Max(1, TrackH(ch)))

list_update(ev) ==
    /\ UNCHANGED <<widgets, scroll_enabled>>
    /\ content_h' = IF layout_dirty THEN Max(0, ContentH(widgets)) ELSE content_h
    /\ layout_dirty' = FALSE
    /\ LET sy == IF layout_dirty THEN ClampScroll(scroll_y, content_h') ELSE scroll_y
       IN IF scroll_enabled /\ content_h' > ViewH
            THEN IF ev.type = "MOUSEWHEEL"
                   THEN /\ scroll_y' = ClampScroll(sy - ev.y * WheelStep * ScrollScale,
                                                   content_h')
                        /\ UNCHANGED <<dragging, drag_start_y, scroll_start>>
                 ELSE IF ev.type = "MOUSEBUTTONDOWN"
                   THEN /\ scroll_y' = sy
                        /\ IF ev.hit
                             THEN /\ dragging' = TRUE
                                  /\ drag_start_y' = ev.y
                                  /\ scroll_start' = sy
                             ELSE UNCHANGED <<dragging, drag_start_y, scroll_start>>
                 ELSE IF ev.type = "MOUSEBUTTONUP"
                   THEN /\ scroll_y' = sy
                        /\ dragging' = FALSE
                        /\ UNCHANGED <<drag_start_y, scroll_start>>
                 ELSE IF ev.type = "MOUSEMOTION" /\ dragging
                   THEN /\ scroll_y' = ClampScroll(Dragged(ev.y - drag_start_y, content_h'),
                                                   content_h')
                        /\ UNCHANGED <<dragging, drag_start_y, scroll_start>>
                 ELSE /\ scroll_y' = sy
                      /\ UNCHANGED <<dragging, drag_start_y, scroll_start>>
            ELSE /\ scroll_y' = sy
                 /\ UNCHANGED <<dragging, drag_start_y, scroll_start>>
    /\ list_op' = ListOp("update")

NextList ==
    \/ \E w \in WidgetHeights : list_add(w) /\ UNCHANGED <<manager, scenes, item, state>>
    \/ \E w1, w2 \in WidgetHeights :
          list_add_many(<<w1, w2>>) /\ UNCHANGED <<manager, scenes, item, state>>
    \/ \E w \in WidgetHeights : list_remove(w) /\ UNCHANGED <<manager, scenes, item, state>>
    \/ list_clear /\ UNCHANGED <<manager, scenes, item, state>>
    \/ layout_now /\ UNCHANGED <<manager, scenes, item, state>>
    \/ \E ev \in Events : list_update(ev) /\ UNCHANGED <<manager, scenes, item, state>>

InitScroll == \E enabled \in BOOLEAN : InitWith(DefaultLimit, enabled)

SpecList == InitScroll /\ [][NextList]_vars

TypeOK ==
    /\ current \in Scenes \cup {None}
    /\ registry \subseteq Scenes
    /\ phase \in {"idle", "fading_out", "fading_in"}
    /\ dur \in {0, DefaultDur} \cup {d \in FadeInputs : d > 0}
    /\ next_scene \in Scenes \cup {None}
    /\ next_kwargs \in Kwargs

\* ------------------------------------------------------------ properties
IsOp(name) == op.name = name

\* the update call that flips from the outgoing to the incoming scene
Flip == op'.name = "update" /\ phase = "fading_out" /\ phase' = "fading_in"

Enters == {i \in DOMAIN calls : calls[i].m = "enter"}
Updates == {i \in DOMAIN calls : calls[i].m = "update"}

\* C1 -- last switch wins: the flip activates the scene of the latest fade
\* switch, entering it once with the arguments of that call; while the fade-out
\* lasts no scene is entered, so an earlier target is never entered.
C1_LastSwitchWins ==
    [][/\ Flip => /\ current' = last_req[1]
                  /\ \A i \in Enters' : calls'[i] = CallEnter(last_req[1], last_req[2])
                  /\ Cardinality(Enters') = 1
       /\ (phase = "fading_out" /\ phase' = "fading_out") => Enters' = {}]_vars

C1_Witness ==
    /\ IsOp("update") /\ op.ph = "fading_out" /\ phase = "fading_in"
    /\ first_req = "B" /\ last_req = <<"C", "kwC">>
    /\ current = "C"
    /\ calls = <<CallExit("A"), CallEnter("C", "kwC"), CallUpdate("C", op.dt)>>

\* C2 -- update freeze: an update call that finds the manager fading out calls
\* no scene's update unless it flips, and then only the update of the scene it
\* has just entered, after that enter.
C2_UpdateFreeze ==
    [][(op'.name = "update" /\ phase = "fading_out") =>
         \A i \in Updates' :
            /\ phase' = "fading_in"
            /\ \E j \in Enters' : j < i /\ calls'[j].s = calls'[i].s]_vars

C2_Witness ==
    /\ IsOp("update") /\ op.ph = "fading_out" /\ phase = "fading_out"
    /\ op.dt > 0 /\ acc = 15 /\ current = "A" /\ calls = <<>>

C4_AsClaimed ==
    [][/\ 0 <= alpha' /\ alpha' <= Full
       /\ (phase = "fading_out" /\ phase' = "fading_out") => alpha' >= alpha
       /\ (phase = "fading_in" /\ phase' = "fading_in") => alpha' <= alpha]_vars

\* C4 -- overlay monotonicity, amended: alpha stays within [0, 255]; between
\* two consecutive fading_out states it does not decrease unless the step is a
\* switch call, which restarts the fade-out at alpha = 0; between two
\* consecutive fading_in states it does not increase.
C4_OverlayMonotone ==
    [][/\ 0 <= alpha' /\ alpha' <= Full
       /\ (phase = "fading_out" /\ phase' = "fading_out") =>
             IF op'.name = "switch" THEN alpha' = 0 ELSE alpha' >= alpha
       /\ (phase = "fading_in" /\ phase' = "fading_in") => alpha' <= alpha]_vars

C4_Witness ==
    /\ IsOp("update") /\ op.ph = "fading_in" /\ phase = "fading_in"
    /\ alpha = Full \div 4 /\ acc = 15 /\ dur = 20

\* C5 -- fade timing, for a fade whose duration is not changed on the way: each
\* tick that stays in its half adds 255*dt/dur to alpha while fading out and
\* subtracts it while fading in; the flip (exit of the old scene, enter of the
\* new one, fading_in) comes on the first tick at which the dt accumulated since
\* the switch reaches dur, and idle on the first tick at which the dt
\* accumulated after the flip tick reaches dur.  With dur = 1.0 s and ticks of
\* 0.5 s: alpha is 127.5 after the first tick, the second tick flips, and idle
\* is reached on the fourth.
C5_FadeTiming ==
    [][(op'.name = "update" /\ phase # "idle" /\ steady /\ dur > 0) =>
         /\ phase = "fading_out" =>
              /\ alpha * dur = AlphaMax * AlphaScale * acc
              /\ IF acc + op'.dt >= dur
                   THEN /\ phase' = "fading_in" /\ alpha' = Full
                        /\ current' = next_scene
                        /\ SubSeq(calls', 1, 2) =
                              <<CallExit(current), CallEnter(next_scene, next_kwargs)>>
                   ELSE /\ phase' = "fading_out" /\ current' = current
                        /\ alpha' * dur = alpha * dur + AlphaMax * AlphaScale * op'.dt
         /\ phase = "fading_in" =>
              /\ alpha * dur = AlphaMax * AlphaScale * (dur - acc)
              /\ current' = current
              /\ IF acc + op'.dt >= dur
                   THEN phase' = "idle" /\ alpha' = 0
                   ELSE /\ phase' = "fading_in"
                        /\ alpha' * dur = alpha * dur - AlphaMax * AlphaScale * op'.dt]_vars

C5_Witness ==
    /\ IsOp("update") /\ op.dt = 10 /\ op.ph = "fading_out" /\ phase = "fading_out"
    /\ steady /\ dur = 20 /\ acc = 10 /\ 2 * alpha = Full
    /\ current = "A" /\ next_scene = "B"

\* C6 -- immediate switch: a switch without fade, whatever the phase, exits the
\* previous current scene once (if there is one), then makes the scene current
\* and enters it once with the call's arguments; phase is idle and alpha 0.
C6_ImmediateSwitch ==
    [][(op'.name = "switch" /\ ~op'.fade) =>
         /\ current' = op'.scene
         /\ phase' = "idle" /\ alpha' = 0
         /\ calls' = (IF current # None THEN <<CallExit(current)>> ELSE <<>>)
                     \o <<CallEnter(op'.scene, op'.kw)>>]_vars

C6_Witness ==
    /\ IsOp("switch") /\ ~op.fade /\ op.ph = "fading_out" /\ op.scene = "C"
    /\ current = "C" /\ phase = "idle" /\ alpha = 0
    /\ calls = <<CallExit("A"), CallEnter("C", "kwC")>>

\* C7 -- first switch is immediate: a switch made while there is no current
\* scene, fade asked for or not, makes the scene current, enters it once and
\* leaves phase idle.
C7_FirstSwitchImmediate ==
    [][(op'.name = "switch" /\ current = None) =>
         /\ current' = op'.scene
         /\ phase' = "idle"
         /\ calls' = <<CallEnter(op'.scene, op'.kw)>>]_vars

C7_Witness ==
    /\ IsOp("switch") /\ op.fade /\ dur > 0
    /\ calls = <<CallEnter("A", "kw0")>> /\ current = "A" /\ phase = "idle"

\* C8 as claimed -- phase idle implies that the stored pending target is none.
C8_IdleNoPending == phase = "idle" => next_scene = None

\* C9 -- remove of the current scene exits it once, clears current and forces
\* phase idle and alpha 0 from any phase; a draw call draws the current scene
\* only and composites an overlay only when phase is not idle, so that after
\* the remove nothing is drawn.
C9_RemoveCurrent ==
    [][/\ (op'.name = "remove" /\ op'.scene = current) =>
             /\ calls' = <<CallExit(current)>>
             /\ current' = None /\ phase' = "idle" /\ alpha' = 0
       /\ (op'.name = "draw" /\ current = None /\ phase = "idle") =>
             calls' = <<>> /\ overlay' = -1]_vars

C9_Witness ==
    /\ IsOp("remove") /\ op.ph = "fading_in" /\ op.scene = "B"
    /\ calls = <<CallExit("B")>> /\ current = None /\ phase = "idle" /\ alpha = 0

\* C10 as claimed -- remove of the pending target while fading out cancels the
\* transition: phase falls back to idle, and no later update makes the removed
\* scene current.
C10_RemovePendingCancels ==
    [][/\ (op'.name = "remove" /\ phase = "fading_out" /\ op'.scene = next_scene
             /\ op'.scene # current) => phase' = "idle"
       /\ (op'.name = "update" /\ cancelled # None) => current' # cancelled]_vars

\* a switch call that took the immediate path
FastSwitch == op'.name = "switch" /\ (~op'.fade \/ current = None \/ dur <= 0)
RemovesCurrent == op'.name = "remove" /\ op'.scene = current

\* C11 as claimed -- abort only by remove: no call other than remove moves
\* phase from fading_out to idle.
C11_AbortOnlyByRemove ==
    [][(phase = "fading_out" /\ phase' = "idle") => op'.name = "remove"]_vars

\* C11 -- amended: a fade in progress ends before its fade-out and fade-in have
\* run only by remove of the current scene or by a switch that takes the
\* immediate path (with_fade false or duration <= 0); add, set_fade,
\* handle_events, draw, a fade-path switch and update never move phase from
\* fading_out to idle, and update moves it from fading_in to idle only when
\* alpha has run down to 0.
C11_AbortByRemoveOrFastSwitch ==
    [][/\ (phase = "fading_out" /\ phase' = "idle") => (RemovesCurrent \/ FastSwitch)
       /\ (phase = "fading_in" /\ phase' = "idle") =>
             \/ RemovesCurrent
             \/ FastSwitch
             \/ (op'.name = "update" /\ alpha - Step(op'.dt) <= 0 /\ alpha' = 0)]_vars

C11_Witness ==
    /\ IsOp("switch") /\ ~op.fade /\ op.ph = "fading_out" /\ op.scene = "B"
    /\ phase = "idle" /\ current = "B" /\ next_scene = "C"

\* C12 -- a switch that takes the fade path (a current scene, with_fade, a
\* positive duration) records the scene and arguments as pending and sets
\* phase fading_out and alpha 0; current is unchanged and no scene callback is
\* invoked in the call.
C12_FadeSwitchDefers ==
    [][(op'.name = "switch" /\ op'.fade /\ current # None /\ dur > 0) =>
         /\ next_scene' = op'.scene /\ next_kwargs' = op'.kw
         /\ phase' = "fading_out" /\ alpha' = 0
         /\ current' = current /\ dur' = dur
         /\ calls' = <<>>]_vars

C12_Witness ==
    /\ IsOp("switch") /\ op.fade /\ op.ph = "fading_in" /\ op.scene = "A"
    /\ phase = "fading_out" /\ alpha = 0 /\ current = "B"
    /\ next_scene = "A" /\ next_kwargs = "kwC" /\ calls = <<>>

\* C13 -- set_fade with a duration <= 0 stores 0; the stored duration stays 0
\* until a set_fade with a positive value, and while it is 0 every switch, fade
\* asked for or not, makes its scene current and leaves phase idle.
C13_NonPositiveFadeIsImmediate ==
    [][/\ (op'.name = "set_fade" /\ op'.dt <= 0) => dur' = 0
       /\ (dur = 0 /\ dur' # 0) => (op'.name = "set_fade" /\ op'.dt > 0)
       /\ (op'.name = "switch" /\ dur = 0) =>
             /\ current' = op'.scene /\ phase' = "idle"
             /\ Enters' # {}
             /\ calls'[Len(calls')] = CallEnter(op'.scene, op'.kw)]_vars

C13_Witness ==
    /\ IsOp("switch") /\ op.fade /\ dur = 0 /\ op.ph = "idle"
    /\ calls = <<CallExit("A"), CallEnter("B", "kw0")>>
    /\ current = "B" /\ phase = "idle"

C15_SwitchRegisters == IsOp("switch") => has(op.scene)

C15_Witness ==
    /\ IsOp("switch") /\ op.fade /\ ~op.had /\ op.scene = "C"
    /\ phase = "fading_out" /\ next_scene = "C" /\ has("C")

\* C16 -- add(S) puts S in the registry, leaves a registry that already holds
\* S as it is, calls no scene callback and changes neither current, phase,
\* alpha nor the pending target.
C16_AddIdempotentPassive ==
    [][op'.name = "add" =>
         /\ registry' = registry \cup {op'.scene}
         /\ op'.scene \in registry => registry' = registry
         /\ calls' = <<>>
         /\ UNCHANGED <<current, phase, alpha, next_scene, next_kwargs>>]_vars

C16_Witness ==
    /\ IsOp("add") /\ op.scene = "B" /\ op.had /\ op.ph = "idle"
    /\ registry = {"B"} /\ current = None /\ calls = <<>>

\* C17 -- remove(S) of a scene that is neither registered nor current calls no
\* scene callback and leaves registry, current, phase, alpha and the pending
\* target unchanged.
C17_RemoveAbsentNoOp ==
    [][(op'.name = "remove" /\ op'.scene \notin registry /\ op'.scene # current) =>
         /\ calls' = <<>>
         /\ UNCHANGED mgr]_vars

C17_Witness ==
    /\ IsOp("remove") /\ ~op.had /\ op.scene = "B" /\ op.ph = "idle"
    /\ current = "A" /\ next_scene = "B" /\ registry = {"A"} /\ calls = <<>>

\* C18 -- a fresh manager has no current scene, an empty registry, alpha 0
\* and is not transitioning; in every state is_transitioning is true exactly
\* in the phases fading_out and fading_in.
C18_IdleDefault ==
    /\ IsOp("init") =>
          /\ current = None /\ registry = {} /\ alpha = 0
          /\ ~is_transitioning
    /\ is_transitioning <=> phase \in {"fading_out", "fading_in"}

C18_Witness ==
    IsOp("init") /\ current = None /\ registry = {} /\ ~is_transitioning

\* C20 -- midpoint flip: outside remove and the immediate switch, current
\* changes only in an update call that finds fading_out with alpha reaching
\* 255; that call sets alpha to 255, exits the outgoing scene, makes the pending
\* target current, enters it with the pending arguments and only then sets
\* phase fading_in, so each callback finds alpha = 255 and phase fading_out,
\* and alpha is 255 in the state after the call.
C20_FlipOrder ==
    [][/\ (current' # current /\ ~RemovesCurrent /\ ~FastSwitch) => Flip
       /\ Flip =>
            /\ alpha + Step(op'.dt) >= Full
            /\ alpha' = Full
            /\ current' = next_scene
            /\ SubSeq(calls', 1, 2) =
                  <<CallExit(current), CallEnter(next_scene, next_kwargs)>>
            /\ seen' = <<Seen("exit", Full, current, "fading_out"),
                         Seen("enter", Full, next_scene, "fading_out")>>]_vars

C20_Witness ==
    /\ IsOp("update") /\ op.ph = "fading_out" /\ phase = "fading_in"
    /\ alpha = Full /\ current = "B" /\ Len(seen) = 2
    /\ calls = <<CallExit("A"), CallEnter("B", "kw0"), CallUpdate("B", op.dt)>>

ExitsEnters == {i \in DOMAIN calls : calls[i].m \in {"exit", "enter"}}

\* C19 -- transition completes: when the frame loop keeps calling update with
\* dt > 0 and no switch or remove is made during a fade, every fade-out towards
\* a scene ends with that scene current, phase idle and alpha 0; on the way the
\* outgoing scene's exit and the incoming scene's enter are called once each,
\* both in the flip, and the fade-in never turns back into a fade-out.
C19_TransitionCompletes ==
    /\ \A s \in Scenes :
          (phase = "fading_out" /\ next_scene = s)
             ~> (phase = "idle" /\ alpha = 0 /\ current = s)
    /\ [][phase # "idle" =>
            /\ IF Flip
                 THEN /\ ExitsEnters' = {1, 2}
                      /\ calls'[1] = CallExit(current)
                      /\ calls'[2] = CallEnter(next_scene, next_kwargs)
                 ELSE ExitsEnters' = {}
            /\ phase = "fading_in" => phase' # "fading_out"]_vars

C19_Witness ==
    /\ IsOp("update") /\ op.ph = "fading_in" /\ op.dt > 0
    /\ phase = "idle" /\ alpha = 0 /\ current = "B" /\ next_scene = "B"

\* C21 -- update forwarding: an update call makes exactly one scene update
\* call, on the scene then current and with its dt, when it finds the phase idle
\* and a current scene, or when the phase after its timer step is fading_in
\* (the flip tick included, where the scene just entered is updated after its
\* enter); it makes no scene update call on a tick that ends in fading_out nor
\* on the tick on which the fade-in completes.
C21_UpdateForwarding ==
    [][op'.name = "update" =>
         IF \/ phase = "idle" /\ current # None
            \/ phase # "idle" /\ phase' = "fading_in" /\ current' # None
           THEN /\ Cardinality(Updates') = 1
                /\ calls'[Len(calls')] = CallUpdate(current', op'.dt)
                /\ Flip => Enters' = {Len(calls') - 1}
           ELSE Updates' = {}]_vars

C21_Witness ==
    /\ IsOp("update") /\ op.ph = "fading_in" /\ op.dt > 0
    /\ phase = "idle" /\ current = "A" /\ calls = <<>>

\* the scenes with an enter not yet matched by an exit after the calls cs are
\* made in order starting from the set act; {"bad"} when an enter reaches a
\* scene of the set or an exit a scene outside it
RECURSIVE Lifecycle(_, _)
Lifecycle(cs, act) ==
    IF cs = <<>> THEN act
    ELSE IF Head(cs).m = "enter"
           THEN IF Head(cs).s \in act THEN {"bad"}
                ELSE Lifecycle(Tail(cs), act \cup {Head(cs).s})
    ELSE IF Head(cs).m = "exit"
           THEN IF Head(cs).s \notin act THEN {"bad"}
                ELSE Lifecycle(Tail(cs), act \ {Head(cs).s})
    ELSE Lifecycle(Tail(cs), act)

Active(cur) == IF cur = None THEN {} ELSE {cur}

\* C22 -- lifecycle alternation: with scenes that neither raise nor call the
\* manager, the scenes with an unmatched enter are exactly the current scene
\* (none at the start); every call of the manager keeps it so, reaching enter
\* only for a scene without an unmatched enter and exit only for a scene with
\* one.  So each scene's calls alternate enter, exit, enter, ... and at most
\* one scene is active.
C22_LifecycleAlternation ==
    /\ current = None
    /\ [][Lifecycle(calls', Active(current)) = Active(current')]_vars

C22_Witness ==
    /\ IsOp("update") /\ op.ph = "fading_out" /\ phase = "fading_in"
    /\ current = "A" /\ Len(calls) = 3
    /\ calls[1] = CallExit("A") /\ calls[2] = CallEnter("A", "kwC")

\* C24 -- draw compositing: a draw call draws the current scene, if any,
\* before anything else; it composites the overlay after that, at the alpha
\* cut to a whole number in 0..255, exactly when the phase is not idle, also
\* at alpha 0 right after a fade switch; in phase idle it composites nothing.
C24_DrawCompositing ==
    IsOp("draw") =>
      /\ calls = (IF current # None THEN <<CallDraw(current)>> ELSE <<>>)
                 \o (IF phase # "idle"
                       THEN <<CallBlit(Max(0, Min(AlphaMax, alpha \div AlphaScale)))>>
                       ELSE <<>>)
      /\ (overlay # -1) <=> (phase # "idle")

C24_Witness ==
    /\ IsOp("draw") /\ phase = "fading_out" /\ alpha = 0
    /\ calls = <<CallDraw("A"), CallBlit(0)>>

\* C25 as claimed -- current is always registered.
C25_CurrentRegistered == current # None => current \in registry

\* C23 as claimed -- a re-entrant switch is honoured: when a scene asks for
\* scene s with a fade switch from inside its enter() during the flip, then,
\* while update keeps being called with dt > 0, s becomes current unless the
\* host asks for another scene first.
C23_ReentrantSwitchHonoured ==
    \A s \in Scenes : (wanted = s) ~> (current = s \/ wanted # s)

\* C26 as claimed -- scene failures are not retried: after exit() or enter() of
\* a scene raised in the flip, later update calls do not call that callback of
\* that scene again, unless the host asked for another switch or remove in
\* between.
C26_FailureNotRetried ==
    [][(failed # NoFail /\ op'.name = "update") =>
         \A i \in DOMAIN calls' :
            ~(calls'[i].s = failed[1] /\ calls'[i].m = failed[2])]_vars

\* C27 -- remove resets even when exit() raises: when remove(S) of the current
\* scene S ends with the exception of S.exit(), then current is none, phase
\* idle and alpha 0, whatever the fade was doing; exit was called once.
C27_RemoveResetsOnRaise ==
    [][(op'.name = "remove" /\ Raised(op'.scene) \in {calls'[i] : i \in DOMAIN calls'}) =>
         /\ op'.scene = current
         /\ calls' = <<CallExit(current), Raised(current)>>
         /\ current' = None
         /\ phase' = "idle"
         /\ alpha' = 0]_vars

C27_Witness ==
    /\ IsOp("remove") /\ op.scene = "A" /\ op.ph = "fading_out"
    /\ calls = <<CallExit("A"), Raised("A")>>
    /\ current = None /\ phase = "idle" /\ alpha = 0
    /\ "A" \in registry

\* C28 as claimed -- stop race: when a download that was asked to stop has
\* ended (downloading is False, the worker is gone and _stop_download has
\* returned), the status of the item is "Stopped".
C28_StoppedAfterStop ==
    (stop_flag /\ ~downloading /\ pc_worker = "off" /\ pc_ui = "idle")
       => status = "Stopped"

\* C29 -- recent list well-formed: from the empty list and with one fixed
\* limit, after any push_recent calls the list holds no name twice and never
\* the empty name, is no longer than the limit, and starts with the latest
\* non-empty name pushed (it is empty only while none was pushed); a
\* push_recent of the empty name leaves the list as it is.
C29_RecentWellFormed ==
    /\ [](/\ \A i, j \in DOMAIN recent : recent[i] = recent[j] => i = j
          /\ ~Contains(recent, "")
          /\ Len(recent) <= limit
          /\ IF pushed = None THEN recent = <<>> ELSE recent[1] = pushed)
    /\ [][last_name' = "" => recent' = recent]_vars

C29_Witness ==
    /\ Len(recent) = limit /\ limit = 3
    /\ last_name = "" /\ pushed = "n4" /\ recent = <<"n4", "n1", "n3">>

\* C30 -- scroll bounds: after every ListContainer call the scroll offset lies
\* between 0 and max(0, content height - view height), where the content
\* height is that of the widgets now in the list, and it is 0 when scrolling
\* is disabled; so a remove that shrinks the content clamps the offset anew.
\* Every drag ratio is a whole number of ScrollScale units.
C30_ScrollBounds ==
    /\ content_h = ContentH(widgets)
    /\ 0 <= scroll_y
    /\ scroll_y <= Max(0, content_h - (RectHeight - 2 * PaddingY)) * ScrollScale
    /\ ~scroll_enabled => scroll_y = 0
    /\ content_h > ViewH => ScrollScale % Max(1, TrackH(content_h)) = 0

C30_Witness ==
    /\ list_op.name = "remove" /\ list_op.back
    /\ scroll_enabled /\ content_h > ViewH
    /\ scroll_y = (content_h - ViewH) * ScrollScale
====
